---- MODULE Spec2Model ----
(***************************************************************************)
(* A model of porter's AgentManager (src/src/managers/AgentManager.ts):    *)
(* the registry that maps runtime ports to logical agents, with its        *)
(* synchronous event emitter.  JavaScript runs each host notification to   *)
(* completion, so a host notification (connect, message, disconnect) is    *)
(* taken only when no handler is running; a running handler may call the   *)
(* public API (addAgent, removeAgent, on) re-entrantly.                    *)
(***************************************************************************)
EXTENDS Integers, Sequences, FiniteSets, TLC

\* ------------------------------------------------------------------------
\* Bounds of the model
\* ------------------------------------------------------------------------
MaxPorts == 2       \* ports the host ever connects
MaxClock == 1       \* largest value Date.now() returns
MaxSubs == 1        \* handler subscriptions made with on()

Ports == 1..MaxPorts
\* uuidv4 is modelled by a counter: at most one new id per admitted port.
AgentIds == 1..MaxPorts
Events == <<"agentSetup", "agentMessage", "agentDisconnect">>
EventNames == {Events[i] : i \in 1..Len(Events)}

\* An optional value (undefined / null in the source) is <<>> or <<v>>.
None == <<>>
Some(v) == <<v>>

\* JavaScript `x || d` on an optional number: undefined and 0 are falsy.
OrElse(opt, d) == IF opt = None \/ opt[1] = 0 THEN d ELSE opt[1]

Range(s) == {s[i] : i \in 1..Len(s)}

\* ------------------------------------------------------------------------
\* Port senders (Runtime.MessageSender) the host supplies
\* ------------------------------------------------------------------------
WebUrl == [ext |-> FALSE, file |-> "index.html"]
ExtUrl(f) == [ext |-> TRUE, file |-> f]

NoSender == [present |-> FALSE, tab |-> None, url |-> None, frameId |-> None]
MkSender(tab, url, frameId) ==
  [present |-> TRUE, tab |-> tab, url |-> url, frameId |-> frameId]

\* The senders the connect notifications of Spec draw from: a port without
\* sender, and the top frame and a sub-frame of a web page in tab 1.
Senders ==
  { NoSender,
    MkSender(Some(1), Some(WebUrl), Some(0)),
    MkSender(Some(1), Some(WebUrl), Some(1)) }

\* browser.runtime.getManifest(): the page paths the manifest configures, as
\* sequences of path segments (<<>> when the manifest omits the entry).
Manifest ==
  [sidepanel |-> <<>>, options |-> <<>>, popup |-> <<>>, devtools |-> <<>>,
   newtab |-> <<>>, bookmarks |-> <<>>, history |-> <<>>]

\* path ? path.split('/').pop() : fallback
PageMatcher(path, fallback) == IF path # <<>> THEN path[Len(path)] ELSE fallback

\* The page matchers in the declaration order of the object literal.
pageMatchers ==
  << [pageType |-> "sidepanel", matcher |-> PageMatcher(Manifest.sidepanel, "sidepanel.html")],
     [pageType |-> "options",   matcher |-> PageMatcher(Manifest.options, "options.html")],
     [pageType |-> "popup",     matcher |-> PageMatcher(Manifest.popup, "popup.html")],
     [pageType |-> "devtools",  matcher |-> PageMatcher(Manifest.devtools, "devtools.html")],
     [pageType |-> "newtab",    matcher |-> PageMatcher(Manifest.newtab, "newtab.html")],
     [pageType |-> "bookmarks", matcher |-> PageMatcher(Manifest.bookmarks, "bookmarks.html")],
     [pageType |-> "history",   matcher |-> PageMatcher(Manifest.history, "history.html")] >>

\* The context of the first page matcher equal to the file name, else Unknown.
MatchPage(filename) ==
  LET hits == SelectSeq(pageMatchers, LAMBDA m : m.matcher = filename)
  IN IF hits = <<>> THEN "Unknown" ELSE hits[1].pageType

\* A port without a sender falls through to the fallback for unknown sources.
identifyConnectionSource_fallback(sender) ==
  IF ~sender.present
    THEN Some([context |-> "Unknown", tabId |-> Some(0), frameId |-> None])
  ELSE IF sender.tab # None /\ sender.url # None /\ ~sender.url[1].ext
    THEN Some([context |-> "ContentScript",
               tabId |-> sender.tab,
               frameId |-> Some(OrElse(sender.frameId, 0))])
  ELSE IF sender.url # None /\ sender.url[1].ext
    THEN Some([context |-> MatchPage(sender.url[1].file),
               tabId |-> Some(OrElse(sender.tab, 0)),
               frameId |-> Some(OrElse(sender.frameId, 0))])
  ELSE Some([context |-> "Unknown", tabId |-> Some(0), frameId |-> None])

\* identifyConnectionSource(port): null (None) without a sender, else the
\* context with the optional tabId and frameId.
identifyConnectionSource(sender) ==
  IF ~sender.present THEN None
  ELSE IF sender.tab # None /\ sender.url # None /\ ~sender.url[1].ext
    THEN Some([context |-> "ContentScript",
               tabId |-> sender.tab,
               frameId |-> Some(OrElse(sender.frameId, 0))])
  ELSE IF sender.url # None /\ sender.url[1].ext
    THEN Some([context |-> MatchPage(sender.url[1].file),
               tabId |-> Some(OrElse(sender.tab, 0)),
               frameId |-> Some(OrElse(sender.frameId, 0))])
  ELSE Some([context |-> "Unknown", tabId |-> Some(0), frameId |-> None])

\* ------------------------------------------------------------------------
\* State
\* ------------------------------------------------------------------------
VARIABLES
  agents,         \* Map<AgentId, Set<Port>>: a function on the ids it holds
  agentsInfo,     \* Map<AgentId, AgentInfo>: its keys in insertion order
  infoObj,        \* the AgentInfo objects by id, also after they left the map
  eventHandlers,  \* event name -> subscribed handlers in insertion order
  nextId,         \* the next id uuidv4 returns
  clock,          \* the last value Date.now() returned
  portState,      \* per port: status, the agentId addAgent returned and its
                  \* listeners captured, and the location addAgent determined
  stack,          \* the emit calls in progress, innermost last
  published,      \* number of agentSetup / agentDisconnect emits per agent id
  forced,         \* ids removed by removeAgent
  last            \* the last registry call or host notification

vars == <<agents, agentsInfo, infoObj, eventHandlers, nextId, clock, portState,
          stack, published, forced, last>>

registry == <<agents, agentsInfo, infoObj, nextId, clock>>

NoInfo == [id |-> 0, location |-> [context |-> "", tabId |-> 0, frameId |-> 0],
           createdAt |-> 0, lastActiveAt |-> 0]

\* The record of a registry call: the operation, the agent id it resolved or
\* was given, the port, whether it created the agent, the ports and the number
\* of agents before the call, the event it published and the errors it logged.
NoCall == [op |-> "none", agentId |-> 0, port |-> 0, created |-> FALSE,
           prePorts |-> {}, preLen |-> 0, emitted |-> "none", logged |-> {}]

\* ------------------------------------------------------------------------
\* Read accessors
\* ------------------------------------------------------------------------
\* this.agentsInfo.has(id) / this.agents.has(id)
HasInfo(id) == id \in Range(agentsInfo)
HasPorts(id) == id \in DOMAIN agents

\* { ports: Array.from(this.agents.get(key) || []), info: value }
AgentOf(id) ==
  [ports |-> IF HasPorts(id) THEN agents[id] ELSE {}, info |-> infoObj[id]]

\* The keys of agentsInfo whose location is `location`, in map order.
LocationMatches(location) ==
  SelectSeq(agentsInfo, LAMBDA k : infoObj[k].location = location)

\* The empty-set test is off by one: an agent with one port is not found.
getAgentByLocation_offByOne(location) ==
  LET hits == LocationMatches(location)
  IN IF hits = <<>> THEN None
     ELSE IF ~HasPorts(hits[1]) \/ ~HasInfo(hits[1]) THEN None
     ELSE IF Cardinality(agents[hits[1]]) <= 1 THEN None
     ELSE Some(AgentOf(hits[1]))

\* getAgentByLocation: the first info entry with that location, unless it has
\* no port set or an empty one.
getAgentByLocation(location) ==
  LET hits == LocationMatches(location)
  IN IF hits = <<>> THEN None
     ELSE IF ~HasPorts(hits[1]) \/ ~HasInfo(hits[1]) THEN None
     ELSE IF agents[hits[1]] = {} THEN None
     ELSE Some(AgentOf(hits[1]))

\* What getAgentByLocation logs at error level.
getAgentByLocationErrors(location) ==
  LET hits == LocationMatches(location)
  IN IF hits = <<>> THEN {"No agent found for location. "}
     ELSE IF ~HasPorts(hits[1]) \/ ~HasInfo(hits[1])
       THEN {"No agent found for location. "}
     ELSE IF agents[hits[1]] = {} THEN {"No port available for agent id. "}
     ELSE {}

getAgentsByContext(context) ==
  LET keys == SelectSeq(agentsInfo, LAMBDA k : infoObj[k].location.context = context)
  IN [i \in 1..Len(keys) |-> AgentOf(keys[i])]

getAllAgents == [i \in 1..Len(agentsInfo) |-> AgentOf(agentsInfo[i])]

\* A filter field of queryAgents is used only when it is truthy: an absent
\* field, the empty context, tabId 0 and frameId 0 all match everything.
QueryMatches(info, location) ==
  LET hasContext == IF location.context # None
                      THEN info.location.context = location.context[1] ELSE TRUE
      hasTabId == IF location.tabId # None /\ location.tabId[1] # 0
                    THEN info.location.tabId = location.tabId[1] ELSE TRUE
      hasFrameId == IF location.frameId # None /\ location.frameId[1] # 0
                      THEN info.location.frameId = location.frameId[1] ELSE TRUE
  IN hasContext /\ hasTabId /\ hasFrameId

queryAgents(location) ==
  LET keys == SelectSeq(agentsInfo, LAMBDA k : QueryMatches(infoObj[k], location))
  IN [i \in 1..Len(keys) |-> AgentOf(keys[i])]

getAgentById(id) ==
  IF ~HasPorts(id) \/ ~HasInfo(id) THEN None ELSE Some(AgentOf(id))

getPortsByAgentId(id) == IF ~HasPorts(id) THEN {} ELSE agents[id]

getAllAgentsInfo == [i \in 1..Len(agentsInfo) |-> infoObj[agentsInfo[i]]]

\* Port names are the port numbers: a port matches itself only.
hasPort(port) == \E id \in DOMAIN agents : port \in agents[id]

\* The ids an accessor result mentions.
IdsOf(agentSeq) == {agentSeq[i].info.id : i \in 1..Len(agentSeq)}

\* ------------------------------------------------------------------------
\* The event emitter
\* ------------------------------------------------------------------------
Top == stack[Len(stack)]

SubsCount ==
  Len(eventHandlers.agentSetup) + Len(eventHandlers.agentMessage)
    + Len(eventHandlers.agentDisconnect)

\* on(event, handler): Set.add appends a handler the set does not hold yet.
on(event, handler) ==
  /\ eventHandlers' =
       IF handler \in Range(eventHandlers[event]) THEN eventHandlers
       ELSE [eventHandlers EXCEPT ![event] = Append(@, handler)]
  /\ UNCHANGED <<agents, agentsInfo, infoObj, nextId, clock, portState, stack,
                 published, forced, last>>

\* The emit in progress: the event, the AgentInfo object (by id) and port it
\* carries, and the position in the handler set of the handler now running.
Frame(event, id, port) == [event |-> event, id |-> id, port |-> port, idx |-> 1]

\* The event is published twice.
emit_twice(event, id, port) ==
  /\ stack' = IF eventHandlers[event] = <<>> THEN stack
              ELSE Append(stack, Frame(event, id, port))
  /\ published' = IF event \in DOMAIN published
                    THEN [published EXCEPT ![event][id] = @ + 2]
                    ELSE published

\* emit(event, ...args): forEach calls the first handler, if there is one.
emit(event, id, port) ==
  /\ stack' = IF eventHandlers[event] = <<>> THEN stack
              ELSE Append(stack, Frame(event, id, port))
  /\ published' = IF event \in DOMAIN published
                    THEN [published EXCEPT ![event][id] = @ + 1]
                    ELSE published

\* The running handler returns: forEach calls the next handler of the (live)
\* set, or emit returns to the registry call that published.
HandlerReturn ==
  /\ stack # <<>>
  /\ stack' = IF Top.idx < Len(eventHandlers[Top.event])
                THEN [stack EXCEPT ![Len(stack)].idx = @ + 1]
                ELSE SubSeq(stack, 1, Len(stack) - 1)
  /\ UNCHANGED <<agents, agentsInfo, infoObj, eventHandlers, nextId, clock,
                 portState, published, forced, last>>

\* The running handler throws: the exception leaves forEach, emit and the
\* registry call that published, and reaches that call's caller.
HandlerThrow ==
  /\ stack # <<>>
  /\ stack' = SubSeq(stack, 1, Len(stack) - 1)
  /\ UNCHANGED <<agents, agentsInfo, infoObj, eventHandlers, nextId, clock,
                 portState, published, forced, last>>

\* ------------------------------------------------------------------------
\* Registry operations
\* ------------------------------------------------------------------------
\* A generator that repeats the id it returned last.
uuidv4_repeats == IF nextId > 1 THEN nextId - 1 ELSE nextId

uuidv4 == nextId

\* Date.now(): the value it returned last, or a later one.  The code stores
\* and copies timestamps and never computes with them, so one later value
\* stands for all of them.
DateNow == {t \in {clock, clock + 1} : t <= MaxClock}

\* The whole map is cleared.
AgentsDelete_all(agentId) == <<>>

\* The port set is emptied, but its key stays in the map.
AgentsDelete_keepsKey(agentId) == [agents EXCEPT ![agentId] = {}]

\* The entry is left in the map.
AgentsDelete_skipped(agentId) == agents

\* this.agents.delete(agentId)
AgentsDelete(agentId) == [i \in DOMAIN agents \ {agentId} |-> agents[i]]

\* The info entry is left in the map.
AgentsInfoDelete_skipped(agentId) == agentsInfo

\* this.agentsInfo.delete(agentId)
AgentsInfoDelete(agentId) == SelectSeq(agentsInfo, LAMBDA k : k # agentId)

\* this.agentsInfo.set(agentId, agentInfo), unless the map has the id
AgentsInfoSet(agentId) ==
  IF HasInfo(agentId) THEN agentsInfo ELSE Append(agentsInfo, agentId)

\* Every port of the agent is dropped, not only the one that disconnected.
PortsAfterDelete_all(agentId, port) == {}

\* The port that disconnected is left in the set.
PortsAfterDelete_kept(agentId, port) == agents[agentId]

\* ports.delete(port)
PortsAfterDelete(agentId, port) == agents[agentId] \ {port}

\* const existing = getAgentByLocation(...)?.info?.id
ExistingId(location) ==
  LET found == getAgentByLocation(location)
  IN IF found = None THEN None ELSE Some(found[1].info.id)

\* The new port replaces the ports the agent had.
AgentsAddPort_clobbers(agentId, port) ==
  [i \in DOMAIN agents \cup {agentId} |->
     IF i = agentId THEN {port} ELSE agents[i]]

\* if (!agents.has(agentId)) agents.set(agentId, new Set());
\* agents.get(agentId).add(port)
AgentsAddPort(agentId, port) ==
  IF HasPorts(agentId) THEN [agents EXCEPT ![agentId] = @ \cup {port}]
  ELSE [i \in DOMAIN agents \cup {agentId} |->
          IF i = agentId THEN {port} ELSE agents[i]]

\* The AgentInfo of the agent after the call: the existing object with
\* lastActiveAt refreshed, or a new one.
AgentInfoAt(agentId, location, now) ==
  IF HasInfo(agentId) THEN [infoObj[agentId] EXCEPT !.lastActiveAt = now]
  ELSE [id |-> agentId, location |-> location, createdAt |-> now,
        lastActiveAt |-> now]

\* The location addAgent stores for a connection source.
LocationOf(connectionSource) ==
  [context |-> connectionSource.context,
   tabId |-> OrElse(connectionSource.tabId, -1),
   frameId |-> OrElse(connectionSource.frameId, 0)]

CallRecord(op, agentId, port, emitted, errors) ==
  [op |-> op, agentId |-> agentId, port |-> port, created |-> FALSE,
   prePorts |-> getPortsByAgentId(agentId), preLen |-> Len(agentsInfo),
   emitted |-> emitted, logged |-> errors]

addAgent(port, sender) ==
  LET connectionSource == identifyConnectionSource(sender) IN
  IF connectionSource = None
  THEN /\ portState' = [portState EXCEPT
                          ![port] = [status |-> "open", agentId |-> 0,
                                     location |-> NoInfo.location]]
       /\ last' = CallRecord("addAgent", 0, port, "none",
                             {"Cannot add agent that did not have a sender"})
       /\ UNCHANGED <<agents, agentsInfo, infoObj, eventHandlers, nextId, clock,
                      stack, published, forced>>
  ELSE
    LET location == LocationOf(connectionSource[1])
        existing == ExistingId(location)
        agentId == IF existing # None THEN existing[1] ELSE uuidv4
    IN \E now \in DateNow :
         /\ agents' = AgentsAddPort(agentId, port)
         /\ agentsInfo' = AgentsInfoSet(agentId)
         /\ infoObj' = [infoObj EXCEPT ![agentId] = AgentInfoAt(agentId, location, now)]
         /\ nextId' = IF existing # None THEN nextId ELSE nextId + 1
         /\ clock' = now
         /\ portState' = [portState EXCEPT
                            ![port] = [status |-> "open", agentId |-> agentId,
                                       location |-> location]]
         /\ emit("agentSetup", agentId, port)
         /\ last' = [CallRecord("addAgent", agentId, port, "agentSetup",
                                getAgentByLocationErrors(location))
                       EXCEPT !.created = (existing = None)]
         /\ UNCHANGED <<eventHandlers, forced>>

\* A forced removal that publishes agentDisconnect like a release does.
removeAgent_publishes(agentId) ==
  /\ IF HasPorts(agentId) /\ HasInfo(agentId)
       THEN /\ agents' = AgentsDelete(agentId)
            /\ agentsInfo' = AgentsInfoDelete(agentId)
            /\ forced' = forced \cup {agentId}
            /\ emit("agentDisconnect", agentId, 0)
            /\ last' = CallRecord("removeAgent", agentId, 0, "none", {})
       ELSE /\ last' = CallRecord("removeAgent", agentId, 0, "none",
                                  {"No agent found to remove. "})
            /\ UNCHANGED <<agents, agentsInfo, forced, stack, published>>
  /\ UNCHANGED <<infoObj, eventHandlers, nextId, clock, portState>>

\* A removal asked for while a handler runs is dropped.
removeAgent_deferred(agentId) ==
  /\ IF HasPorts(agentId) /\ HasInfo(agentId) /\ stack = <<>>
       THEN /\ agents' = AgentsDelete(agentId)
            /\ agentsInfo' = AgentsInfoDelete(agentId)
            /\ forced' = forced \cup {agentId}
            /\ last' = CallRecord("removeAgent", agentId, 0, "none", {})
       ELSE /\ last' = CallRecord("removeAgent", agentId, 0, "none",
                                  {"No agent found to remove. "})
            /\ UNCHANGED <<agents, agentsInfo, forced>>
  /\ UNCHANGED <<infoObj, eventHandlers, nextId, clock, portState, stack,
                 published>>

\* The info entry of the removed agent is left in agentsInfo.
removeAgent_keepsInfo(agentId) ==
  /\ IF HasPorts(agentId) /\ HasInfo(agentId)
       THEN /\ agents' = AgentsDelete(agentId)
            /\ forced' = forced \cup {agentId}
            /\ last' = CallRecord("removeAgent", agentId, 0, "none", {})
            /\ UNCHANGED agentsInfo
       ELSE /\ last' = CallRecord("removeAgent", agentId, 0, "none",
                                  {"No agent found to remove. "})
            /\ UNCHANGED <<agents, agentsInfo, forced>>
  /\ UNCHANGED <<infoObj, eventHandlers, nextId, clock, portState, stack,
                 published>>

removeAgent(agentId) ==
  /\ IF HasPorts(agentId) /\ HasInfo(agentId)
       THEN /\ agents' = AgentsDelete(agentId)
            /\ agentsInfo' = AgentsInfoDelete(agentId)
            /\ forced' = forced \cup {agentId}
            /\ last' = CallRecord("removeAgent", agentId, 0, "none", {})
       ELSE /\ last' = CallRecord("removeAgent", agentId, 0, "none",
                                  {"No agent found to remove. "})
            /\ UNCHANGED <<agents, agentsInfo, forced>>
  /\ UNCHANGED <<infoObj, eventHandlers, nextId, clock, portState, stack,
                 published>>

removePortFromAgent(agentId, port) ==
  /\ UNCHANGED <<infoObj, eventHandlers, nextId, clock, forced>>
  /\ IF ~HasPorts(agentId)
       THEN /\ last' = CallRecord("removePortFromAgent", agentId, port, "none", {})
            /\ UNCHANGED <<agents, agentsInfo, stack, published>>
     ELSE IF PortsAfterDelete(agentId, port) # {}
       THEN /\ agents' = [agents EXCEPT ![agentId] = PortsAfterDelete(agentId, port)]
            /\ last' = CallRecord("removePortFromAgent", agentId, port, "none", {})
            /\ UNCHANGED <<agentsInfo, stack, published>>
     ELSE /\ agents' = AgentsDelete(agentId)
          /\ IF HasInfo(agentId)
               THEN /\ agentsInfo' = AgentsInfoDelete(agentId)
                    /\ emit("agentDisconnect", agentId, 0)
                    /\ last' = CallRecord("removePortFromAgent", agentId, port,
                                          "agentDisconnect", {})
               ELSE /\ last' = CallRecord("removePortFromAgent", agentId, port,
                                          "none", {})
                    /\ UNCHANGED <<agentsInfo, stack, published>>

\* ------------------------------------------------------------------------
\* Steps of the program
\* ------------------------------------------------------------------------
FreshPorts == {p \in Ports : portState[p].status = "fresh"}

\* The next port the host creates.
NextPort == CHOOSE p \in FreshPorts : \A q \in FreshPorts : p <= q

\* addAgent(port) for a new port: from the host's connect notification, or
\* from the handler that is running.
CallAddAgent(sender) ==
  /\ FreshPorts # {}
  /\ addAgent(NextPort, sender)

\* An id that is in neither map: the ids uuidv4 returned whose agent is gone
\* and the id it returns next all take the same path through removeAgent, so
\* the smallest of them stands for an unknown id.
UnknownId ==
  CHOOSE id \in 1..nextId :
    /\ ~HasPorts(id) /\ ~HasInfo(id)
    /\ \A other \in 1..(id - 1) : HasPorts(other) \/ HasInfo(other)

\* removeAgent(agentId), from the host program or from the running handler,
\* with the id of an agent of the registry or an unknown id.
CallRemoveAgent(agentId) ==
  /\ HasPorts(agentId) \/ HasInfo(agentId) \/ agentId = UnknownId
  /\ removeAgent(agentId)

\* on(event, handler) with a handler function the event does not have yet;
\* the handlers of an event are numbered in subscription order.
Subscribe(event) ==
  /\ SubsCount < MaxSubs
  /\ on(event, Len(eventHandlers[event]) + 1)

\* The host delivers the disconnect of a port to the onDisconnect listener
\* addAgent registered (a second delivery of the same notification included).
PortDisconnect(port) ==
  /\ stack = <<>>
  /\ portState[port].agentId # 0
  /\ removePortFromAgent(portState[port].agentId, port)
  /\ portState' = [portState EXCEPT ![port].status = "closed"]

\* The host delivers a message of an open port to the onMessage listener,
\* which publishes it with the AgentInfo object the listener captured.
PortMessage(port) ==
  /\ stack = <<>>
  /\ portState[port].status = "open"
  /\ portState[port].agentId # 0
  /\ emit("agentMessage", portState[port].agentId, port)
  /\ last' = CallRecord("message", portState[port].agentId, port,
                        "agentMessage", {})
  /\ UNCHANGED <<agents, agentsInfo, infoObj, eventHandlers, nextId, clock,
                 portState, forced>>

Init ==
  /\ agents = <<>>
  /\ agentsInfo = <<>>
  /\ infoObj = [id \in AgentIds |-> NoInfo]
  /\ eventHandlers = [agentSetup |-> <<>>, agentMessage |-> <<>>,
                      agentDisconnect |-> <<>>]
  /\ nextId = 1
  /\ clock = 0
  /\ portState = [p \in Ports |-> [status |-> "fresh", agentId |-> 0,
                                    location |-> NoInfo.location]]
  /\ stack = <<>>
  /\ published = [agentSetup |-> [id \in AgentIds |-> 0],
                  agentDisconnect |-> [id \in AgentIds |-> 0]]
  /\ forced = {}
  /\ last = NoCall

Next ==
  \/ \E sender \in Senders : CallAddAgent(sender)
  \/ \E agentId \in 1..nextId : CallRemoveAgent(agentId)
  \/ \E event \in EventNames : Subscribe(event)
  \/ \E port \in Ports : PortDisconnect(port)
  \/ \E port \in Ports : PortMessage(port)
  \/ HandlerReturn
  \/ HandlerThrow

Spec == Init /\ [][Next]_vars

\* The registry of a host program that subscribed its handlers right after
\* construction: one handler on every event, and MaxSubs more on one of them.
HandlersAtStart(event) ==
  [n \in EventNames |->
     IF n = event THEN [i \in 1..(MaxSubs + 1) |-> i] ELSE <<1>>]

InitHandlers ==
  /\ agents = <<>>
  /\ agentsInfo = <<>>
  /\ infoObj = [id \in AgentIds |-> NoInfo]
  /\ eventHandlers \in {HandlersAtStart(event) : event \in EventNames}
  /\ nextId = 1
  /\ clock = 0
  /\ portState = [p \in Ports |-> [status |-> "fresh", agentId |-> 0,
                                    location |-> NoInfo.location]]
  /\ stack = <<>>
  /\ published = [agentSetup |-> [id \in AgentIds |-> 0],
                  agentDisconnect |-> [id \in AgentIds |-> 0]]
  /\ forced = {}
  /\ last = NoCall

NextHandlers ==
  \/ \E sender \in Senders : CallAddAgent(sender)
  \/ \E agentId \in 1..nextId : CallRemoveAgent(agentId)
  \/ \E port \in Ports : PortDisconnect(port)
  \/ \E port \in Ports : PortMessage(port)
  \/ HandlerReturn
  \/ HandlerThrow

SpecHandlers == InitHandlers /\ [][NextHandlers]_vars

\* The senders identifyConnectionSource tells apart: without or with a tab
\* (tab id 0 or 1), without url or with the url of a web page, of the
\* extension's popup page or of another extension page, and without or with
\* a frameId (0 or 1); and the port without sender.
KeySenders ==
  {NoSender} \cup
  {MkSender(tab, url, frameId) :
     tab \in {None, Some(0), Some(1)},
     url \in {None, Some(WebUrl), Some(ExtUrl("popup.html")),
              Some(ExtUrl("background.html"))},
     frameId \in {None, Some(0), Some(1)}}

\* The registry with ports of every kind of sender, connecting and
\* disconnecting, and no handler subscribed.
NextKeys ==
  \/ \E sender \in KeySenders : CallAddAgent(sender)
  \/ \E port \in Ports : PortDisconnect(port)

SpecKeys == Init /\ [][NextKeys]_vars

\* The registry of a host program that never calls removeAgent, in a host
\* that delivers the disconnect of every port it connected and whose
\* handlers all end (JavaScript runs each notification to completion before
\* it delivers the next one).
PortCloses(port) == portState[port].status = "open" /\ PortDisconnect(port)

HandlerEnds == HandlerReturn \/ HandlerThrow

NextLive ==
  \/ \E sender \in Senders : CallAddAgent(sender)
  \/ \E event \in EventNames : Subscribe(event)
  \/ \E port \in Ports : PortDisconnect(port)
  \/ \E port \in Ports : PortMessage(port)
  \/ HandlerReturn
  \/ HandlerThrow

SpecLive ==
  /\ Init
  /\ [][NextLive]_vars
  /\ WF_vars(HandlerEnds)
  /\ \A port \in Ports : SF_vars(PortCloses(port))

\* ------------------------------------------------------------------------
\* Vocabulary of the properties
\* ------------------------------------------------------------------------
Contexts == {"ContentScript", "Unknown"} \cup
            {pageMatchers[i].pageType : i \in 1..Len(pageMatchers)}

\* The locations addAgent can store for the senders of Spec.
Locations ==
  {LocationOf(identifyConnectionSource(sender)[1]) :
     sender \in {x \in Senders : identifyConnectionSource(x) # None}}

\* The partial locations queryAgents is asked about: each field absent or
\* one of the values a stored location has.
PartialLocations ==
  {[context |-> c, tabId |-> t, frameId |-> f] :
     c \in {None} \cup {Some(l.context) : l \in Locations},
     t \in {None} \cup {Some(l.tabId) : l \in Locations},
     f \in {None} \cup {Some(l.frameId) : l \in Locations}}

\* The ports addAgent accepted, and those among them not yet disconnected.
Admitted == {p \in Ports : portState[p].agentId # 0}
OpenAdmitted == {p \in Admitted : portState[p].status = "open"}

\* Only admits have changed the registry so far: nothing was released and
\* nothing was removed.
OnlyAdmits == forced = {} /\ OpenAdmitted = Admitted

\* No read accessor returns the agent id.
AbsentFromAccessors(id) ==
  /\ id \notin IdsOf(getAllAgents)
  /\ getAgentById(id) = None
  /\ getPortsByAgentId(id) = {}
  /\ id \notin {getAllAgentsInfo[i].id : i \in 1..Len(getAllAgentsInfo)}
  /\ \A c \in Contexts : id \notin IdsOf(getAgentsByContext(c))
  /\ \A q \in PartialLocations : id \notin IdsOf(queryAgents(q))
  /\ \A l \in Locations :
       getAgentByLocation(l) = None \/ getAgentByLocation(l)[1].info.id # id

C2_SameKeys == DOMAIN agents = Range(agentsInfo)

\* A handler has removed an agent while another agent is in both maps.
C2_Witness ==
  /\ stack # <<>>
  /\ last.op = "removeAgent"
  /\ last.prePorts # {}
  /\ agentsInfo # <<>>

\* ------------------------------------------------------------------------
\* C3: in every reachable state every agent of the registry has at least one
\* port, and while an agentDisconnect handler runs the agent it was published
\* for is no longer in the registry.
\* ------------------------------------------------------------------------
C3_NoEmptyAgent ==
  /\ \A id \in DOMAIN agents : agents[id] # {}
  /\ \A i \in 1..Len(agentsInfo) : getAllAgents[i].ports # {}
  /\ \A k \in 1..Len(stack) :
       stack[k].event = "agentDisconnect" => getAgentById(stack[k].id) = None

\* An agentDisconnect handler is running, right after the release.
C3_Witness ==
  /\ stack # <<>>
  /\ Top.event = "agentDisconnect"
  /\ last.op = "removePortFromAgent"
  /\ last.prePorts = {last.port}

\* ------------------------------------------------------------------------
\* C4: an addAgent of a new port whose location is the location of an agent
\* of the registry returns that agent's id (the id every port of the agent
\* was given), adds no agent, adds the port to the agent's ports (two ports
\* when it had one), and does not lower lastActiveAt; no step lowers the
\* lastActiveAt of an agent, Date.now() being non-decreasing.
\* ------------------------------------------------------------------------
C4_MergeStep ==
  \A sender \in Senders :
    ( /\ identifyConnectionSource(sender) # None
      /\ LocationMatches(LocationOf(identifyConnectionSource(sender)[1])) # <<>>
      /\ CallAddAgent(sender) )
    => LET id == LocationMatches(LocationOf(identifyConnectionSource(sender)[1]))[1]
       IN /\ last'.agentId = id
          /\ portState'[NextPort].agentId = id
          /\ \A c \in agents[id] : portState[c].agentId = id
          /\ agentsInfo' = agentsInfo
          /\ NextPort \notin agents[id]
          /\ getPortsByAgentId(id)' = agents[id] \cup {NextPort}
          /\ (Cardinality(agents[id]) = 1 => Cardinality(getPortsByAgentId(id)') = 2)
          /\ infoObj'[id].lastActiveAt >= infoObj[id].lastActiveAt
          /\ infoObj'[id].location = infoObj[id].location

C4_LastActiveNeverDecreases ==
  \A id \in AgentIds :
    HasInfo(id) => infoObj'[id].lastActiveAt >= infoObj[id].lastActiveAt

C6_LastRelease ==
  /\ ( /\ last.op = "removePortFromAgent"
       /\ last.prePorts = {last.port} )
     => /\ AbsentFromAccessors(last.agentId)
        /\ last.emitted = "agentDisconnect"
        /\ published.agentDisconnect[last.agentId] = 1
        /\ infoObj[last.agentId].id = last.agentId
        /\ infoObj[last.agentId].location = portState[last.port].location
        /\ Len(getAllAgents) = last.preLen - 1
        /\ \A k \in 1..Len(stack) :
             stack[k].event = "agentDisconnect" /\ stack[k].id = last.agentId
  /\ \A id \in AgentIds :
       /\ published.agentDisconnect[id] <= 1
       /\ published.agentDisconnect[id] = 1 => (~HasPorts(id) /\ ~HasInfo(id))

\* The disconnect of a port is delivered again after the agent was removed
\* by the first delivery.
C6_Witness ==
  /\ last.op = "removePortFromAgent"
  /\ last.prePorts = {}
  /\ portState[last.port].agentId = last.agentId
  /\ published.agentDisconnect[last.agentId] = 1

\* ------------------------------------------------------------------------
\* C7: while only admits have happened and the admitted ports have pairwise
\* different locations, the ids addAgent returned are pairwise different,
\* getAllAgents has one agent per admitted port, and the agent of each port
\* has that port only.
\* ------------------------------------------------------------------------
PairwiseDistinctLocations ==
  \A p, q \in Admitted :
    p # q => portState[p].location # portState[q].location

C7_DistinctLocations ==
  (OnlyAdmits /\ PairwiseDistinctLocations)
  => /\ \A p, q \in Admitted : p # q => portState[p].agentId # portState[q].agentId
     /\ Len(getAllAgents) = Cardinality(Admitted)
     /\ \A p \in Admitted : getPortsByAgentId(portState[p].agentId) = {p}

\* Two ports of different locations (two frames of one tab) were admitted.
C7_Witness ==
  /\ OnlyAdmits
  /\ PairwiseDistinctLocations
  /\ Cardinality(Admitted) = 2

\* ------------------------------------------------------------------------
\* C8: while only admits have happened and every admitted port came from the
\* top frame (frameId 0) of tab 1, the ids addAgent returned are pairwise
\* different, and getAllAgents and queryAgents({tabId}) have one agent per
\* admitted port.  (The code merges these ports into one agent.)
\* ------------------------------------------------------------------------
TopFrameLocation == [context |-> "ContentScript", tabId |-> 1, frameId |-> 0]

AllFromTopFrame == \A p \in Admitted : portState[p].location = TopFrameLocation

C8_OneAgentPerPort ==
  (OnlyAdmits /\ AllFromTopFrame)
  => /\ \A p, q \in Admitted : p # q => portState[p].agentId # portState[q].agentId
     /\ Len(getAllAgents) = Cardinality(Admitted)
     /\ Len(queryAgents([context |-> None, tabId |-> Some(1), frameId |-> None]))
          = Cardinality(Admitted)

\* ------------------------------------------------------------------------
\* C9: after several ports of the top frame of tab 1 were admitted and one of
\* them disconnected, getAgentById of the id addAgent returned for that port
\* is null, getAllAgents has one agent less, and the ids returned for the
\* other ports are still found.  (The code keeps the merged agent.)
\* ------------------------------------------------------------------------
C9_RemovesOnlyDisconnected ==
  ( /\ last.op = "removePortFromAgent"
    /\ forced = {}
    /\ AllFromTopFrame
    /\ Cardinality(Admitted) >= 2
    /\ Admitted \ OpenAdmitted = {last.port} )
  => /\ getAgentById(portState[last.port].agentId) = None
     /\ Len(getAllAgents) = last.preLen - 1
     /\ \A q \in OpenAdmitted : getAgentById(portState[q].agentId) # None

\* ------------------------------------------------------------------------
\* C10: right after removeAgent of an agent with one or more ports, the agent
\* is in neither map and no read accessor returns it, its ports are still
\* open, and no agentDisconnect was published; an agent removed by
\* removeAgent is never in either map again and no agentDisconnect is ever
\* published for it, also when its former ports disconnect.
\* ------------------------------------------------------------------------
C10_ForceRemove ==
  /\ ( /\ last.op = "removeAgent"
       /\ last.prePorts # {} )
     => /\ ~HasPorts(last.agentId)
        /\ ~HasInfo(last.agentId)
        /\ AbsentFromAccessors(last.agentId)
        /\ Len(getAllAgents) = last.preLen - 1
        /\ last.emitted = "none"
        /\ \A p \in last.prePorts : portState[p].status = "open"
  /\ \A id \in forced :
       /\ published.agentDisconnect[id] = 0
       /\ ~HasPorts(id)
       /\ ~HasInfo(id)

\* An agent with every port was removed by removeAgent, and then one of its
\* former ports disconnected.
C10_Witness ==
  /\ last.op = "removePortFromAgent"
  /\ last.agentId \in forced
  /\ \A p \in Ports : portState[p].agentId = last.agentId
  /\ portState[last.port].status = "closed"

\* ------------------------------------------------------------------------
\* C11: a disconnect delivered for, or a removeAgent called with, an agent id
\* that is in neither map logs an error, publishes no event and leaves the
\* agents, their ports and their info unchanged.  (The code logs nothing when
\* the disconnect listener finds no ports for the id.)
\* ------------------------------------------------------------------------
C11_UnknownIdStep ==
  ( \/ \E agentId \in 1..nextId :
         ~HasPorts(agentId) /\ ~HasInfo(agentId) /\ CallRemoveAgent(agentId)
    \/ \E port \in Ports :
         /\ ~HasPorts(portState[port].agentId)
         /\ ~HasInfo(portState[port].agentId)
         /\ PortDisconnect(port) )
  => /\ last'.logged # {}
     /\ last'.emitted = "none"
     /\ UNCHANGED <<agents, agentsInfo, infoObj, published, stack>>

C11_UnknownIdIsLoggedNoOp == [][C11_UnknownIdStep]_vars

\* ------------------------------------------------------------------------
\* C12: addAgent of a port without sender returns no id, logs an error,
\* creates and changes no agent, registers no listener on the port and
\* publishes no agentSetup: the registry is as it was.
\* ------------------------------------------------------------------------
C12_RejectStep ==
  \A sender \in Senders :
    (~sender.present /\ CallAddAgent(sender))
    => /\ last'.agentId = 0
       /\ portState'[NextPort].agentId = 0
       /\ last'.logged # {}
       /\ last'.emitted = "none"
       /\ UNCHANGED <<agents, agentsInfo, infoObj, nextId, clock, eventHandlers,
                      published, stack, forced>>
       /\ \A p \in Ports \ {NextPort} : portState'[p] = portState[p]

C12_Reject == [][C12_RejectStep]_vars

\* A port without sender was rejected while the registry has an agent.
C12_Witness ==
  /\ last.op = "addAgent"
  /\ last.agentId = 0
  /\ portState[last.port].status = "open"
  /\ agentsInfo # <<>>

\* ------------------------------------------------------------------------
\* C13: every addAgent that is not rejected, whether it creates the agent or
\* merges the port into one, publishes agentSetup once, with the info object
\* of the agent whose id it returns and the port just added, after the agent
\* and the port are in the maps.
\* ------------------------------------------------------------------------
C13_SetupStep ==
  \A sender \in Senders :
    (sender.present /\ CallAddAgent(sender))
    => LET id == last'.agentId IN
       /\ id = portState'[NextPort].agentId
       /\ id \in AgentIds
       /\ last'.emitted = "agentSetup"
       /\ published'.agentSetup[id] = published.agentSetup[id] + 1
       /\ \A other \in AgentIds \ {id} :
            published'.agentSetup[other] = published.agentSetup[other]
       /\ published'.agentDisconnect = published.agentDisconnect
       /\ id \in DOMAIN agents'
       /\ NextPort \in agents'[id]
       /\ id \in Range(agentsInfo')
       /\ infoObj'[id].id = id
       /\ infoObj'[id].location = portState'[NextPort].location
       /\ IF eventHandlers.agentSetup = <<>> THEN stack' = stack
          ELSE stack' = Append(stack, [event |-> "agentSetup", id |-> id,
                                       port |-> NextPort, idx |-> 1])

C13_Setup == [][C13_SetupStep]_vars

\* A port was merged into an agent and the handler of its agentSetup runs,
\* after the handler of the agentSetup that created the agent has returned.
C13_Witness ==
  /\ last.op = "addAgent"
  /\ ~last.created
  /\ stack = <<[event |-> "agentSetup", id |-> last.agentId,
                port |-> last.port, idx |-> 1]>>
  /\ published.agentSetup[last.agentId] = 2

\* ------------------------------------------------------------------------
\* C14: when a handler throws during a publish, the handlers subscribed to
\* the event after it are still called, and the exception does not leave the
\* registry call that published: the publish goes on as if the handler had
\* returned.  (The code lets the exception leave forEach, emit and the call.)
\* ------------------------------------------------------------------------
C14_ThrowStep ==
  HandlerThrow
  => IF Top.idx < Len(eventHandlers[Top.event])
       THEN stack' = [stack EXCEPT ![Len(stack)].idx = @ + 1]
       ELSE stack' = SubSeq(stack, 1, Len(stack) - 1)

C14_ThrowIsolated == [][C14_ThrowStep]_vars

\* ------------------------------------------------------------------------
\* C15: queryAgents takes a frameId of 0 or a tabId of 0 as a filter: every
\* agent it returns for {frameId: 0} has frameId 0, and every agent it
\* returns for {tabId: 0} has tabId 0.  (The code takes 0 for an absent
\* field and returns every agent.)
\* ------------------------------------------------------------------------
QueryFrameZero == queryAgents([context |-> None, tabId |-> None, frameId |-> Some(0)])

QueryTabZero == queryAgents([context |-> None, tabId |-> Some(0), frameId |-> None])

C15_ZeroIsAFilter ==
  /\ \A i \in 1..Len(QueryFrameZero) : QueryFrameZero[i].info.location.frameId = 0
  /\ \A i \in 1..Len(QueryTabZero) : QueryTabZero[i].info.location.tabId = 0

\* ------------------------------------------------------------------------
\* C16: a handler reads the registry as the call that published left it: in
\* an agentSetup handler getAgentById of the carried id has the new port, in
\* an agentDisconnect handler it is null; and what a handler does with
\* removeAgent or addAgent is done at once: the handlers of the same publish
\* that run later, and the caller once the publish is over, find the agent
\* removed or the port added.
\* ------------------------------------------------------------------------
C16_ReadsSeeMutation ==
  /\ ( /\ stack # <<>>
       /\ Top.event = "agentSetup"
       /\ last.op = "addAgent"
       /\ last.agentId = Top.id
       /\ last.port = Top.port )
     => /\ getAgentById(Top.id) # None
        /\ Top.port \in getAgentById(Top.id)[1].ports
        /\ getAgentById(Top.id)[1].info.id = Top.id
        /\ getAgentById(Top.id)[1].ports = last.prePorts \cup {Top.port}
  /\ ( /\ stack # <<>>
       /\ Top.event = "agentDisconnect"
       /\ last.op = "removePortFromAgent"
       /\ last.agentId = Top.id )
     => /\ getAgentById(Top.id) = None
        /\ Top.id \notin IdsOf(getAllAgents)
  /\ (last.op = "removeAgent" /\ last.prePorts # {})
     => /\ getAgentById(last.agentId) = None
        /\ last.agentId \notin IdsOf(getAllAgents)
        /\ Len(getAllAgents) = last.preLen - 1
  /\ (last.op = "addAgent" /\ last.agentId # 0)
     => /\ getAgentById(last.agentId) # None
        /\ getPortsByAgentId(last.agentId) = last.prePorts \cup {last.port}
        /\ Len(getAllAgents) = last.preLen + (IF last.created THEN 1 ELSE 0)

\* The second handler of an agentSetup publish runs after a handler of that
\* publish has removed the agent the event carries.
C16_Witness ==
  /\ stack # <<>>
  /\ Len(stack) = 1
  /\ Top.event = "agentSetup"
  /\ Top.idx >= 2
  /\ last.op = "removeAgent"
  /\ last.agentId = Top.id
  /\ last.prePorts # {}

\* ------------------------------------------------------------------------
\* C17: in every reachable state every port that was admitted and has not
\* disconnected is in the port set of exactly one agent of the registry.
\* (After removeAgent the ports of the removed agent are open and in no set.)
\* ------------------------------------------------------------------------
Owners(port) ==
  {id \in DOMAIN agents : HasInfo(id) /\ port \in agents[id]}

C17_ExactlyOneOwner ==
  \A p \in OpenAdmitted : Cardinality(Owners(p)) = 1

\* C17 as amended: a port that was admitted and has not disconnected is in
\* the port set of the agent whose id addAgent returned for it and of no
\* other, unless removeAgent removed that agent: then it is in no port set.
C17_OneOwnerUnlessForced ==
  \A p \in OpenAdmitted :
    IF portState[p].agentId \in forced
      THEN Owners(p) = {}
      ELSE Owners(p) = {portState[p].agentId}

\* Two open ports, one of an agent of the registry and one whose agent was
\* removed by removeAgent.
C17_Witness ==
  \E p, q \in OpenAdmitted :
    /\ portState[p].agentId \in forced
    /\ portState[q].agentId \notin forced
    /\ Owners(q) = {portState[q].agentId}

\* ------------------------------------------------------------------------
\* C18: whenever removeAgent was called with every id addAgent returned, so
\* at the end of every cycle of admits and removals, getAllAgents is empty
\* and both maps are as after construction; nothing of an earlier cycle is
\* in a later one: an agent of the registry has only ports that were admitted
\* to it, its id was never removed, and an addAgent into the empty registry
\* creates an agent with that one port.
\* ------------------------------------------------------------------------
C18_CyclesLeaveNothing ==
  /\ (Admitted # {} /\ \A p \in Admitted : portState[p].agentId \in forced)
     => /\ Len(getAllAgents) = 0
        /\ agents = <<>>
        /\ agentsInfo = <<>>
  /\ \A id \in DOMAIN agents :
       /\ id \notin forced
       /\ \A p \in agents[id] : portState[p].agentId = id
  /\ (last.op = "addAgent" /\ last.agentId # 0 /\ last.preLen = 0)
     => /\ last.created
        /\ last.prePorts = {}
        /\ getPortsByAgentId(last.agentId) = {last.port}
        /\ Len(getAllAgents) = 1

\* Two cycles are over: every port was admitted, the ports have the same
\* location and different agent ids (the second was admitted after the first
\* one's agent was removed), and every agent was removed.
C18_Witness ==
  /\ stack = <<>>
  /\ Admitted = Ports
  /\ \A p \in Ports : portState[p].agentId \in forced
  /\ \A p, q \in Ports :
       /\ portState[p].location = portState[q].location
       /\ p # q => portState[p].agentId # portState[q].agentId
  /\ last.op = "removeAgent"
  /\ Len(getAllAgents) = 0

\* ------------------------------------------------------------------------
\* C19: a publish calls every handler subscribed to the event once, in the
\* order of subscription and before the call that published returns, and no
\* handler of another event: it starts at the first handler of the published
\* event in the step of the call that publishes, goes on to the next handler
\* when one is done, and is over only when the last handler is done.  (A
\* handler that throws ends the publish before the later handlers ran.)
\* ------------------------------------------------------------------------
C19_PublishStep ==
  /\ Len(stack') > Len(stack)
     => /\ Len(stack') = Len(stack) + 1
        /\ SubSeq(stack', 1, Len(stack)) = stack
        /\ stack'[Len(stack')].idx = 1
        /\ stack'[Len(stack')].event = last'.emitted
        /\ eventHandlers[last'.emitted] # <<>>
  /\ (Len(stack') = Len(stack) /\ stack' # stack)
     => /\ Top.idx < Len(eventHandlers[Top.event])
        /\ stack' = [stack EXCEPT ![Len(stack)].idx = @ + 1]
  /\ Len(stack') < Len(stack)
     => /\ stack' = SubSeq(stack, 1, Len(stack) - 1)
        /\ Top.idx = Len(eventHandlers[Top.event])
  /\ \A port \in Ports :
       (PortMessage(port) /\ eventHandlers.agentMessage # <<>>)
       => stack' = <<[event |-> "agentMessage", id |-> portState[port].agentId,
                      port |-> port, idx |-> 1]>>

C19_EveryHandlerOnceInOrder == [][C19_PublishStep]_vars

\* ------------------------------------------------------------------------
\* C20: the location stored for an agent addAgent creates is the one the
\* classification of the port gives: the context, as tabId the tab id for a
\* web page (tab id 0 too), the tab id or else 0 for an extension page and 0
\* for a port of unknown origin, and as frameId the frameId or else 0.  (The
\* code stores -1 for every tabId that is 0.)
\* ------------------------------------------------------------------------
ClassifiedKey(sender) ==
  LET source == identifyConnectionSource(sender)[1]
  IN [context |-> source.context,
      tabId |-> source.tabId[1],
      frameId |-> OrElse(source.frameId, 0)]

C20_KeyStep ==
  \A sender \in KeySenders :
    (sender.present /\ CallAddAgent(sender) /\ last'.created)
    => /\ infoObj'[last'.agentId].location = ClassifiedKey(sender)
       /\ getAgentByLocation(ClassifiedKey(sender))' # None

C20_StoredKeyIsClassifiedKey == [][C20_KeyStep]_vars

\* ------------------------------------------------------------------------
\* C21: when removeAgent is never called and the disconnect of every admitted
\* port is delivered, from some point on every agent that was ever created is
\* out of both maps with one agentDisconnect published for it, and the
\* registry is empty; never is more than one agentDisconnect published for
\* an agent.
\* ------------------------------------------------------------------------
Created == {id \in AgentIds : id < nextId}

C21_EveryAgentGoes ==
  /\ [](\A id \in AgentIds : published.agentDisconnect[id] <= 1)
  /\ <>[]( /\ \A id \in Created : /\ ~HasInfo(id)
                                   /\ ~HasPorts(id)
                                   /\ published.agentDisconnect[id] = 1
           /\ agents = <<>>
           /\ agentsInfo = <<>>
           /\ Len(getAllAgents) = 0 )

\* Two agents were created, each port has disconnected, one agentDisconnect
\* was published for each agent and the registry is empty.
C21_Witness ==
  /\ Cardinality(Created) = 2
  /\ \A p \in Ports : portState[p].status = "closed"
  /\ \A id \in Created : published.agentDisconnect[id] = 1
  /\ agentsInfo = <<>>
  /\ forced = {}

\* ------------------------------------------------------------------------
\* C22: when agentMessage is published for a message of a port, the info it
\* carries is that of an agent of the registry whose ports include the port;
\* no agentMessage carries the id of an agent that removeAgent or the last
\* disconnect has removed.  (The onMessage listener of a port whose agent
\* removeAgent removed still publishes with the info object it captured.)
\* ------------------------------------------------------------------------
C22_MessageOfLiveAgent ==
  (last.op = "message")
  => /\ last.emitted = "agentMessage"
     /\ getAgentById(last.agentId) # None
     /\ last.port \in getPortsByAgentId(last.agentId)
     /\ getAgentById(last.agentId)[1].info = infoObj[last.agentId]
     /\ last.agentId \notin forced
     /\ published.agentDisconnect[last.agentId] = 0

====
